---- MODULE Spec2Model ----
(***************************************************************************)
(* Document lifecycle of CodeClarity: per-commit documentation objects in  *)
(* a project's bucket (gcs_storage/), their filename codec, the duplicate  *)
(* guard, the release aggregation and the relocation into a release        *)
(* folder.  Strings are sequences of one-character strings.                *)
(***************************************************************************)
EXTENDS Integers, Sequences, FiniteSets, TLC

(***************************************************************************)
(* Strings                                                                 *)
(***************************************************************************)
Rep(ch, n) == [i \in 1..n |-> ch]

Range(s) == {s[i] : i \in 1..Len(s)}

Last(s) == s[Len(s)]

\* The value Python's None is modelled by (never a string of characters).
Null == <<"None">>

\* [a-f0-9]
HexChars == {"0", "1", "2", "3", "4", "5", "6", "7", "8", "9",
             "a", "b", "c", "d", "e", "f"}

\* Length of a commit identity.
ShaLen == 40

Min(S) == CHOOSE i \in S : \A j \in S : i <= j

\* str.split(sep) for a one-character separator.
Split(s, sep) ==
    LET RECURSIVE go(_, _)
        go(from, seps) ==
            IF seps = {} THEN <<SubSeq(s, from, Len(s))>>
            ELSE <<SubSeq(s, from, Min(seps) - 1)>> \o go(Min(seps) + 1, seps \ {Min(seps)})
    IN go(1, {i \in 1..Len(s) : s[i] = sep})

\* str.replace('.md', ''): every occurrence, left to right ('.md' cannot
\* overlap itself).
ReplaceMd(s) ==
    LET RECURSIVE go(_, _)
        go(from, occ) ==
            IF occ = {} THEN SubSeq(s, from, Len(s))
            ELSE SubSeq(s, from, Min(occ) - 1) \o go(Min(occ) + 3, occ \ {Min(occ)})
    IN go(1, {i \in 1..(Len(s) - 2) : s[i] = "." /\ s[i + 1] = "m" /\ s[i + 2] = "d"})

\* sub in s
Contains(sub, s) ==
    \E k \in 0..(Len(s) - Len(sub)) : \A i \in 1..Len(sub) : s[k + i] = sub[i]

\* s.startswith(pre)
StartsWith(s, pre) ==
    Len(pre) <= Len(s) /\ \A i \in 1..Len(pre) : s[i] = pre[i]

\* s.endswith('/')
EndsWithSlash(s) == Len(s) > 0 /\ s[Len(s)] = "/"

\* name.split('/')[-1]
Basename(name) == Last(Split(name, "/"))

\* len(part) == 40 and re.match(r'^[a-f0-9]{40}$', part)
IsSha(part) == Len(part) = ShaLen /\ Range(part) \subseteq HexChars

\* Has s a run of 40 hex characters?
HasHexRun(s) ==
    \E k \in 0..(Len(s) - ShaLen) : \A i \in 1..ShaLen : s[k + i] \in HexChars

\* extract_sha_from_filename that answers None for a name without the suffix.
extract_sha_RequireMd(filename) ==
    IF Len(filename) < 3 \/ SubSeq(filename, Len(filename) - 2, Len(filename)) # <<".", "m", "d">>
    THEN Null
    ELSE LET parts == Split(ReplaceMd(Basename(filename)), "_")
             hits == {i \in 1..Len(parts) : IsSha(parts[i])}
         IN IF hits = {} THEN Null ELSE parts[Min(hits)]

extract_sha_from_filename(filename) ==
    LET base_filename == ReplaceMd(Basename(filename))
        parts == Split(base_filename, "_")
        hits == {i \in 1..Len(parts) : IsSha(parts[i])}
    IN IF hits = {} THEN Null
       ELSE parts[Min(hits)]

\* f"{timestamp}_{request.commit_sha}_{request.source_branch}.md" under
\* current_release/
CurrentRelease == <<"c", "u", "r", "r", "e", "n", "t", "_", "r", "e", "l", "e", "a", "s", "e", "/">>

DotMd == <<".", "m", "d">>

encode(timestamp, commit_sha, source_branch) ==
    CurrentRelease \o timestamp \o <<"_">> \o commit_sha \o <<"_">> \o source_branch \o DotMd

(***************************************************************************)
(* Values the inputs are drawn from                                        *)
(***************************************************************************)
ShaA == [i \in 1..ShaLen |-> IF i % 2 = 1 THEN "0" ELSE "1"]
ShaB == Rep("b", ShaLen)
ShaC == [i \in 1..ShaLen |-> IF i % 2 = 1 THEN "c" ELSE "9"]

\* datetime.now().strftime("%Y%m%d_%H%M%S")
TS1 == <<"2", "0", "2", "5", "0", "1", "0", "1", "_", "1", "2", "0", "0", "0", "0">>
TS2 == <<"2", "0", "2", "5", "0", "1", "0", "2", "_", "0", "9", "3", "0", "0", "0">>
Timestamps == {TS1, TS2}

BrFeatureX == <<"f", "e", "a", "t", "u", "r", "e", "-", "x">>
BrFixLogin == <<"f", "i", "x", "_", "l", "o", "g", "i", "n">>
BrSlash == <<"f", "e", "a", "t", "/", "x">>
BrMain == <<"m", "a", "i", "n">>
BrDotMd == <<"a", ".", "m", "d", "b">>
BrShortHex == <<"d", "e", "a", "d", "_", "b", "e", "e", "f">>
Branches == {BrFeatureX, BrFixLogin, BrSlash, BrMain, BrDotMd, BrShortHex, <<>>,
             ShaB, <<"x", "_">> \o ShaB \o <<"_", "y">>, <<"x">> \o ShaB}
Shas == {ShaA, ShaB, ShaC}

\* request.release_tag values
TagV1 == <<"v", "1">>
TagV2 == <<"v", "2">>
Tags == {TagV1, TagV2}

\* Document bodies (lengths 9, 4 and 3) and the LLM's release note.
BodyA == Rep("a", 9)
BodyB == Rep("b", 4)
BodyC == Rep("c", 3)
Note == <<"n", "o", "t", "e">>

\* Objects that may lie under current_release/ when a request arrives.
NameA1 == encode(TS1, ShaA, BrFeatureX)
NameB1 == encode(TS1, ShaB, BrFixLogin)
NameA2 == encode(TS2, ShaA, BrMain)
InitialNames == {NameA1, NameB1, NameA2}

BodyOf(name) == IF name = NameA1 THEN BodyA ELSE IF name = NameB1 THEN BodyB ELSE BodyC

\* Names extract_sha_from_filename may be given: with and without the folder,
\* with and without the suffix, with `.md` inside, with segments that are
\* almost an identity.
HalfA == SubSeq(ShaA, 1, 20)
ReadmeMd == <<"r", "e", "a", "d", "m", "e">> \o DotMd
Names ==
    {<<>>,
     DotMd,
     ReadmeMd,
     CurrentRelease,
     CurrentRelease \o ReadmeMd,
     NameA1,
     TS1 \o <<"_">> \o ShaA \o <<"_">> \o BrFeatureX,
     ShaC,
     ShaC \o DotMd,
     CurrentRelease \o ShaB,
     ShaB \o <<"_">> \o ShaA \o DotMd,
     ShaA \o <<"/">> \o ReadmeMd,
     TS1 \o <<"_">> \o SubSeq(ShaA, 1, 39) \o <<"_">> \o BrMain \o DotMd,
     TS1 \o <<"_">> \o ShaA \o <<"0">> \o <<"_">> \o BrMain \o DotMd,
     TS1 \o <<"_">> \o SubSeq(ShaA, 1, 39) \o <<"g">> \o <<"_">> \o BrMain \o DotMd,
     TS1 \o <<"_">> \o SubSeq(ShaB, 1, 39) \o <<"B">> \o <<"_">> \o BrMain \o DotMd,
     TS1 \o <<"_">> \o ShaA \o DotMd \o <<"x">>,
     TS1 \o <<"_">> \o ShaA \o DotMd \o DotMd,
     TS1 \o <<"_">> \o HalfA \o DotMd \o HalfA \o <<"_">> \o BrMain \o DotMd,
     TS1 \o <<"_">> \o HalfA \o DotMd \o HalfA \o <<"_">> \o ShaB \o <<"_">> \o BrMain \o DotMd,
     TS1 \o <<"_">> \o ShaA \o <<"_">> \o BrDotMd,
     TS1 \o <<"_">> \o HalfA \o DotMd \o HalfA \o <<"_">> \o BrMain,
     CurrentRelease \o TS1 \o <<"_">> \o ShaB \o <<"_">> \o BrSlash \o DotMd}

(***************************************************************************)
(* The bucket: one project, hence one bucket name.                         *)
(***************************************************************************)
VARIABLES
    bucketExists,   \* does the project's bucket exist
    objects,        \* object name -> content
    proc,           \* per request: operation, position, arguments, locals, outcome
    cin,            \* codec: the inputs of one encode / decode
    cout            \* codec: the name built and the identity decoded

vars == <<bucketExists, objects, proc, cin, cout>>

Procs == {"p1", "p2"}

\* Faults of the backing store injected into one call.
MaxFaults == 1

\* ASCII order of the characters object names are made of.
Ascii == <<"-", ".", "/", "0", "1", "2", "3", "4", "5", "6", "7", "8", "9", "_",
           "a", "b", "c", "d", "e", "f", "g", "h", "i", "j", "k", "l", "m",
           "n", "o", "p", "q", "r", "s", "t", "u", "v", "w", "x", "y", "z">>

Ord(ch) == CHOOSE i \in 1..Len(Ascii) : Ascii[i] = ch

LexLess(s, t) ==
    LET diff == {i \in 1..Len(s) : i <= Len(t) /\ s[i] # t[i]}
    IN IF diff = {} THEN Len(s) < Len(t)
       ELSE Ord(s[Min(diff)]) < Ord(t[Min(diff)])

SortNames(S) ==
    LET RECURSIVE go(_, _)
        go(rest, acc) ==
            IF rest = {} THEN acc
            ELSE LET m == CHOOSE x \in rest : \A y \in rest \ {x} : LexLess(x, y)
                 IN go(rest \ {m}, Append(acc, m))
    IN go(S, <<>>)

\* bucket.list_blobs(prefix=...): the names under the prefix, in the store's
\* (lexicographic) order.
list_blobs(objs, prefix) == SortNames({n \in DOMAIN objs : StartsWith(n, prefix)})

\* bucket.rename_blob(source, new_name), taken as one atomic step.
rename_blob(objs, src, dst) ==
    IF src = dst THEN objs
    ELSE [n \in (DOMAIN objs \ {src}) \cup {dst} |-> IF n = dst THEN objs[src] ELSE objs[n]]

\* blob.upload_from_string(content): create or replace.
upload_from_string(objs, name, content) ==
    [n \in DOMAIN objs \cup {name} |-> IF n = name THEN content ELSE objs[n]]

(***************************************************************************)
(* Requests.  proc[p] is one request: op names the entry point called, pc  *)
(* the next store call, arg the arguments, loc the locals, out the outcome *)
(* (a return value or the exception raised).  start, nfaults and faults    *)
(* are bookkeeping: the bucket as the call began, and the store calls that *)
(* failed in it (position and loop index).                                 *)
(***************************************************************************)
NoArg == [commit_sha |-> Null, source_branch |-> Null, has_project_name |-> FALSE,
          documentation |-> Null, mr_in_release |-> {}, release_tag |-> Null,
          blob_names |-> <<>>, destination_folder |-> Null, mr_sha |-> {},
          twice |-> FALSE]

NoLoc == [mr_in_gcs |-> {}, common_sha |-> {}, listing |-> <<>>, k |-> 0,
          documents |-> <<>>, documentation |-> Null, file_path |-> Null,
          blob_names |-> <<>>, destination_folder |-> Null, shas_to_move |-> {},
          i |-> 0, moved_blobs |-> <<>>, failed_moves |-> <<>>, printed |-> <<>>,
          call |-> 0, first |-> Null, note_uploaded |-> FALSE]

NoOut == [status |-> "none", error |-> "", why |-> "", value |-> Null, http |-> 0]

\* app.py: the status the registered handler of an exception class answers
\* with; an HTTPException is answered with its own status_code, which the
\* controller sets to 500.
exception_handler(exc) ==
    CASE exc = "HTTPException" -> 500
      [] exc = "DuplicateDocumentationError" -> 409
      [] exc = "InvalidMergeRequest" -> 400
      [] exc \in {"NoCommitsForMRError", "DocumentationGenerationError",
                  "MRNotFoundForReleaseError", "BucketNotFound",
                  "MRDocumentationNotFoundError"} -> 404
      [] exc = "GitlabAPIError" -> 502
      [] OTHER -> 500

\* controllers/GitlabController.py: the status of the response.  Both routes
\* catch every Exception and raise HTTPException(status_code=500).  The route
\* generate-mr-documentation awaits process_merge_request_from_cicd, which is
\* no coroutine function: when it returns its dict the await raises TypeError
\* inside the same try.  A direct call of move_mr_documentation is no request.
HttpStatus(op, raised) ==
    IF op = "move" THEN 0
    ELSE IF raised \/ op \in {"mr", "upload"} THEN exception_handler("HTTPException")
    ELSE 200

Idle == [op |-> "none", pc |-> "idle", arg |-> NoArg, loc |-> NoLoc, out |-> NoOut,
         start |-> <<>>, nfaults |-> 0, faults |-> {}]

Returned(r, v) ==
    [r EXCEPT !.pc = "done", !.out = [status |-> "returned", error |-> "", why |-> "", value |-> v,
                                      http |-> HttpStatus(r.op, FALSE)]]

Raised(r, e, w) ==
    [r EXCEPT !.pc = "done", !.out = [status |-> "raised", error |-> e, why |-> w, value |-> Null,
                                      http |-> HttpStatus(r.op, TRUE)]]

Faulted(r) == [r EXCEPT !.nfaults = @ + 1, !.faults = @ \cup {<<r.pc, r.loc.i>>}]

MayFault(r) == r.nfaults < MaxFaults

Set(p, r) == proc' = [proc EXCEPT ![p] = r]

(***************************************************************************)
(* move_mr_documentation                                                   *)
(***************************************************************************)
Releases == <<"r", "e", "l", "e", "a", "s", "e", "s", "/">>
MrDocs == <<"/", "m", "r", "_", "d", "o", "c", "s", "/">>
Gs == <<"g", "s", ":", "/", "/", "1", "-", "p", "/">>

\* f"gs://{bucket_name}/{file_path}"
Uri(file_path) == Gs \o file_path

\* NormalizeFolder that gives the empty folder a '/' as well.
NormalizeFolder_Always(destination_folder) ==
    IF ~EndsWithSlash(destination_folder) THEN destination_folder \o <<"/">>
    ELSE destination_folder

\* if destination_folder and not destination_folder.endswith('/')
NormalizeFolder(destination_folder) ==
    IF Len(destination_folder) > 0 /\ ~EndsWithSlash(destination_folder)
    THEN destination_folder \o <<"/">>
    ELSE destination_folder

\* any(sha in source_blob_name for sha in shas_to_move)
Selected(source_blob_name, shas_to_move) ==
    \E sha \in shas_to_move : Contains(sha, source_blob_name)

\* NextSelected without the test of line 228: every candidate is taken.
NextSelected_All(blob_names, shas_to_move, from) ==
    IF from > Len(blob_names) THEN Len(blob_names) + 1 ELSE from

\* The loop's `continue`: the index of the next candidate that is selected.
NextSelected(blob_names, shas_to_move, from) ==
    LET hits == {j \in from..Len(blob_names) : Selected(blob_names[j], shas_to_move)}
    IN IF hits = {} THEN Len(blob_names) + 1
       ELSE Min(hits)

\* Lines 214-224: the locals of a call.
MoveEnter(r, blob_names, destination_folder, mr_sha) ==
    [r EXCEPT !.loc.blob_names = blob_names,
              !.loc.destination_folder = NormalizeFolder(destination_folder),
              !.loc.shas_to_move = mr_sha,
              !.loc.moved_blobs = <<>>,
              !.loc.failed_moves = <<>>,
              !.loc.printed = <<>>,
              !.loc.call = @ + 1,
              !.loc.i = NextSelected(blob_names, mr_sha, 1),
              !.pc = "mv_rename"]

\* DestinationOf that keeps the source's folder in the name.
DestinationOf_FullName(r) ==
    r.loc.destination_folder \o r.loc.blob_names[r.loc.i]

\* destination_folder + filename of the candidate at hand
DestinationOf(r) ==
    r.loc.destination_folder \o Basename(r.loc.blob_names[r.loc.i])

\* return moved_blobs (line 263), to the caller: upload_release_note goes on to
\* lines 157-161; a caller that calls twice calls again with the same arguments.
MoveReturn(r) ==
    IF r.op = "release"
    THEN Returned(r, Uri(r.loc.file_path))
    ELSE IF r.arg.twice /\ r.loc.call = 1
    THEN LET again == MoveEnter([r EXCEPT !.loc.first = [moved_blobs |-> r.loc.moved_blobs,
                                                          failed_moves |-> r.loc.failed_moves,
                                                          printed |-> r.loc.printed],
                                          !.start = objects', !.nfaults = 0, !.faults = {}],
                                r.arg.blob_names, r.arg.destination_folder, r.arg.mr_sha)
         IN IF again.loc.i > Len(again.loc.blob_names)
            THEN Returned(again, again.loc.moved_blobs)
            ELSE again
    ELSE Returned(r, r.loc.moved_blobs)

\* The end of one iteration of the loop at lines 226-258.
MoveLoop(r) ==
    IF r.loc.i > Len(r.loc.blob_names) THEN MoveReturn(r) ELSE r

MoveAdvance(r) ==
    MoveLoop([r EXCEPT !.loc.i = NextSelected(r.loc.blob_names, r.loc.shas_to_move, r.loc.i + 1)])

\* An exception that leaves move_mr_documentation: upload_release_note catches it
\* at line 152 and raises (lines 154, 164).
MoveRaise(r) ==
    IF r.op = "release"
    THEN Raised(r, "Exception", "Failed to move MR documentation")
    ELSE Raised(r, "GoogleAPICallError", "exists")

\* MoveHardFailure that gives up the batch instead of going on.
MoveHardFailure_Abort(r) == Raised(r, "RelocationError", "rename")

\* except Exception as e (lines 256-258): the failure is recorded and the loop
\* goes on.
MoveHardFailure(r) ==
    MoveAdvance([r EXCEPT !.loc.failed_moves = (r.loc.blob_names[r.loc.i] :> "error") @@ @,
                          !.loc.printed = (r.loc.blob_names[r.loc.i] :> "Failed to move") @@ @])

\* Lines 243-244: the rename succeeded.
MoveRenamed(r, src, dst) ==
    MoveAdvance([r EXCEPT !.loc.moved_blobs = (src :> dst) @@ @,
                          !.loc.printed = (src :> "Successfully moved") @@ @])

\* MoveAlreadyMoved that takes the missing source for a failure.
MoveAlreadyMoved_Fails(r, src, dst) ==
    MoveAdvance([r EXCEPT !.pc = "mv_rename",
                          !.loc.failed_moves = (src :> "Source blob not found.") @@ @,
                          !.loc.printed = (src :> "Source not found") @@ @])

\* Lines 249-251: the source is gone and the destination is there.
MoveAlreadyMoved(r, src, dst) ==
    MoveAdvance([r EXCEPT !.pc = "mv_rename",
                          !.loc.moved_blobs = (src :> dst) @@ @,
                          !.loc.printed = (src :> "Skipping") @@ @])

\* MoveSourceMissing that ends the loop at the missing source.
MoveSourceMissing_Stops(r, src) ==
    MoveReturn([r EXCEPT !.pc = "mv_rename",
                         !.loc.failed_moves = (src :> "Source blob not found.") @@ @,
                         !.loc.printed = (src :> "Source not found") @@ @,
                         !.loc.i = Len(r.loc.blob_names) + 1])

\* Lines 252-254: the source is gone and the destination is not there.
MoveSourceMissing(r, src) ==
    MoveAdvance([r EXCEPT !.pc = "mv_rename",
                          !.loc.failed_moves = (src :> "Source blob not found.") @@ @,
                          !.loc.printed = (src :> "Source not found") @@ @])

\* A direct call of move_mr_documentation.
StartMove(p, blob_names, destination_folder, mr_sha, twice) ==
    /\ proc[p].pc = "idle"
    /\ UNCHANGED <<bucketExists, objects, cin, cout>>
    /\ Set(p, MoveLoop(MoveEnter([Idle EXCEPT !.op = "move",
                                              !.arg.blob_names = blob_names,
                                              !.arg.destination_folder = destination_folder,
                                              !.arg.mr_sha = mr_sha,
                                              !.arg.twice = twice,
                                              !.start = objects],
                                 blob_names, destination_folder, mr_sha)))

\* bucket.rename_blob(source_blob, destination_blob_name), lines 231-258.
MoveRename(p) ==
    LET r == proc[p]
        src == r.loc.blob_names[r.loc.i]
        dst == DestinationOf(r)
    IN /\ r.pc = "mv_rename"
       /\ \/ /\ src \in DOMAIN objects
             /\ objects' = rename_blob(objects, src, dst)
             /\ Set(p, MoveRenamed(r, src, dst))
          \/ /\ src \notin DOMAIN objects
             /\ objects' = objects
             /\ Set(p, [r EXCEPT !.pc = "mv_exists"])
       /\ UNCHANGED <<bucketExists, cin, cout>>

\* except NotFound (lines 246-254): dest_blob.exists()
MoveExists(p) ==
    LET r == proc[p]
        src == r.loc.blob_names[r.loc.i]
        dst == DestinationOf(r)
    IN /\ r.pc = "mv_exists"
       /\ objects' = objects
       /\ \/ /\ dst \in DOMAIN objects
             /\ Set(p, MoveAlreadyMoved(r, src, dst))
          \/ /\ dst \notin DOMAIN objects
             /\ Set(p, MoveSourceMissing(r, src))
       /\ UNCHANGED <<bucketExists, cin, cout>>

(***************************************************************************)
(* get_MR_documentation and its helpers                                    *)
(***************************************************************************)
\* get_documents_sha that lists the whole bucket.
get_documents_sha_AllObjects(objs) ==
    {extract_sha_from_filename(n) : n \in DOMAIN objs} \ {Null}

\* get_documents_sha: the identities decoded from the names under
\* current_release/, None left out.
get_documents_sha(objs) ==
    {extract_sha_from_filename(n) : n \in {m \in DOMAIN objs : StartsWith(m, CurrentRelease)}}
        \ {Null}

\* len(text) // 4 if text else 0
estimate_tokens(text) == IF Len(text) > 0 THEN Len(text) \div 4 ELSE 0

\* sum(doc["token_count"] for doc in documents)
SumTokens(documents) ==
    LET RECURSIVE go(_)
        go(j) == IF j > Len(documents) THEN 0 ELSE documents[j].token_count + go(j + 1)
    IN go(1)

\* The header line, then one block per document: its number, filename,
\* identity and content.
format_for_llm(documents) ==
    IF documents = <<>>
    THEN [formatted_text |-> <<>>, total_documents |-> 0, estimated_tokens |-> 0]
    ELSE [formatted_text |->
              <<"# Merge Request Documentation for Release">> \o
              [j \in 1..Len(documents) |->
                  [i |-> j, filename |-> documents[j].filename,
                   sha |-> documents[j].sha, content |-> documents[j].content]],
          total_documents |-> Len(documents),
          estimated_tokens |-> SumTokens(documents)]

\* NextWanted without the test `blob_sha in common_sha`.
NextWanted_NoFilter(listing, common_sha, from) ==
    LET hits == {j \in from..Len(listing) : extract_sha_from_filename(listing[j]) # Null}
    IN IF hits = {} THEN Len(listing) + 1 ELSE Min(hits)

\* if blob_sha and blob_sha in common_sha (line 79): the next listed blob to
\* download.
NextWanted(listing, common_sha, from) ==
    LET hits == {j \in from..Len(listing) :
                    extract_sha_from_filename(listing[j]) \in common_sha \ {Null}}
    IN IF hits = {} THEN Len(listing) + 1
       ELSE Min(hits)

\* AggReturn without the test of line 103.
AggReturn_NoCheck(r) ==
    [r EXCEPT !.loc.documentation = format_for_llm(r.loc.documents), !.pc = "wf_llm"]

\* create_release_note, lines 103-111, once get_MR_documentation has returned:
\* a corpus of no document is an error, otherwise the LLM is called.
AggReturn(r) ==
    LET documentation == format_for_llm(r.loc.documents)
    IN IF documentation.total_documents = 0
       THEN Raised(r, "Exception", "No documentation found for release")
       ELSE [r EXCEPT !.loc.documentation = documentation, !.pc = "wf_llm"]

AggLoop(r) ==
    IF r.loc.k > Len(r.loc.listing) THEN AggReturn(r) ELSE r

\* process_release_note_from_cicd -> create_release_note (lines 82-97): the
\* release bundle comes from GitLab; an empty one is an error.
StartRelease(p, mr_in_release, release_tag) ==
    /\ proc[p].pc = "idle"
    /\ UNCHANGED <<bucketExists, objects, cin, cout>>
    /\ LET r == [Idle EXCEPT !.op = "release",
                             !.arg.mr_in_release = mr_in_release,
                             !.arg.release_tag = release_tag,
                             !.arg.mr_sha = mr_in_release,
                             !.start = objects]
       IN Set(p, IF mr_in_release = {}
                 THEN Raised(r, "Exception", "No merge requests found")
                 ELSE [r EXCEPT !.pc = "ag_find1"])

\* get_MR_documentation_sha_from_bucket, lines 26-29: find_project_bucket.
AggFindBucket1(p) ==
    LET r == proc[p]
    IN /\ r.pc = "ag_find1"
       /\ UNCHANGED <<bucketExists, objects, cin, cout>>
       /\ \/ /\ bucketExists
             /\ Set(p, [r EXCEPT !.pc = "ag_list1"])
          \/ /\ ~bucketExists
             /\ Set(p, Raised(r, "Exception", "Bucket does not exist"))

\* get_MR_documentation_sha_from_bucket, lines 31-36.
AggListShas(p) ==
    LET r == proc[p]
        mr_sha == get_documents_sha(objects)
    IN /\ r.pc = "ag_list1"
       /\ UNCHANGED <<bucketExists, objects, cin, cout>>
       /\ Set(p, IF mr_sha = {}
                 THEN Raised(r, "Exception", "No MR documentation found in bucket")
                 ELSE [r EXCEPT !.loc.mr_in_gcs = mr_sha, !.pc = "ag_find2"])

\* get_MR_documentation, lines 49-60.
AggFindBucket2(p) ==
    LET r == proc[p]
        common_sha == r.arg.mr_in_release \cap r.loc.mr_in_gcs
    IN /\ r.pc = "ag_find2"
       /\ UNCHANGED <<bucketExists, objects, cin, cout>>
       /\ bucketExists
       /\ Set(p, IF common_sha = {}
                 THEN Raised(r, "Exception", "No documentation found for release")
                 ELSE [r EXCEPT !.loc.common_sha = common_sha, !.pc = "ag_list2"])

\* get_MR_documentation_from_bucket, line 75: the second listing.
AggListBlobs(p) ==
    LET r == proc[p]
        listing == list_blobs(objects, CurrentRelease)
    IN /\ r.pc = "ag_list2"
       /\ UNCHANGED <<bucketExists, objects, cin, cout>>
       /\ Set(p, AggLoop([r EXCEPT !.loc.listing = listing,
                                   !.loc.documents = <<>>,
                                   !.loc.k = NextWanted(listing, r.loc.common_sha, 1),
                                   !.pc = "ag_download"]))

\* get_MR_documentation_from_bucket, lines 76-91: blob.download_as_text() of
\* one listed blob (AggDownloadGone: the blob is gone by now).
AggDownload(p) ==
    LET r == proc[p]
        name == r.loc.listing[r.loc.k]
    IN /\ r.pc = "ag_download"
       /\ UNCHANGED <<bucketExists, objects, cin, cout>>
       /\ name \in DOMAIN objects
       /\ Set(p, AggLoop([r EXCEPT
              !.loc.documents = Append(@, [sha |-> extract_sha_from_filename(name),
                                           filename |-> Basename(name),
                                           content |-> objects[name],
                                           token_count |-> estimate_tokens(objects[name])]),
              !.loc.k = NextWanted(r.loc.listing, r.loc.common_sha, r.loc.k + 1)]))

\* Line 81 for a listed blob that another request has moved since the listing.
AggDownloadGone(p) ==
    LET r == proc[p]
    IN /\ r.pc = "ag_download"
       /\ r.loc.listing[r.loc.k] \notin DOMAIN objects
       /\ UNCHANGED <<bucketExists, objects, cin, cout>>
       /\ Set(p, Raised(r, "NotFound", "download_as_text"))

\* create_release_note, line 111: the LLM writes the release note.
Llm(p) ==
    LET r == proc[p]
    IN /\ r.pc = "wf_llm"
       /\ UNCHANGED <<bucketExists, objects, cin, cout>>
       /\ Set(p, [r EXCEPT !.pc = "rn_find"])

(***************************************************************************)
(* upload_release_note                                                     *)
(***************************************************************************)
ReleaseNoteMid == <<"_", "r", "e", "l", "e", "a", "s", "e", "-", "n", "o", "t", "e", "_">>

\* f"releases/{request.release_tag}/{timestamp}_release-note_{request.release_tag}.md"
ReleaseNotePath(timestamp, release_tag) ==
    Releases \o release_tag \o <<"/">> \o timestamp \o ReleaseNoteMid \o release_tag \o DotMd

\* f"releases/{request.release_tag}/mr_docs/"
MrDocsFolder(release_tag) == Releases \o release_tag \o MrDocs

\* Lines 102-110: find_project_bucket.
ReleaseFindBucket(p) ==
    LET r == proc[p]
    IN /\ r.pc = "rn_find"
       /\ UNCHANGED <<bucketExists, objects, cin, cout>>
       /\ bucketExists
       /\ Set(p, [r EXCEPT !.pc = "rn_upload"])

\* ReleaseUpload that leaves the writing of the release note for later and
\* goes on to the relocation.
ReleaseUpload_MoveFirst(p, timestamp) ==
    LET r == proc[p]
    IN /\ r.pc = "rn_upload"
       /\ UNCHANGED <<bucketExists, cin, cout>>
       /\ objects' = objects
       /\ Set(p, [r EXCEPT !.loc.file_path = ReleaseNotePath(timestamp, r.arg.release_tag),
                           !.pc = "rn_list"])

\* Lines 113-129: the release note is written under releases/<tag>/.
ReleaseUpload(p, timestamp) ==
    LET r == proc[p]
        file_path == ReleaseNotePath(timestamp, r.arg.release_tag)
    IN /\ r.pc = "rn_upload"
       /\ UNCHANGED <<bucketExists, cin, cout>>
       /\ objects' = upload_from_string(objects, file_path, Note)
       /\ Set(p, [r EXCEPT !.loc.file_path = file_path,
                           !.loc.note_uploaded = TRUE,
                           !.pc = "rn_list"])

\* blob_names = [blob.name for blob in blobs if not blob.name.endswith('/')]
BlobNames(listing) == SelectSeq(listing, LAMBDA n : ~EndsWithSlash(n))

\* Lines 131-155.  The call of move_mr_documentation stands after the if/else,
\* so it is also made for an empty listing, where destination_folder was never
\* assigned: the UnboundLocalError is caught at line 152, which raises.
ReleaseList(p) ==
    LET r == proc[p]
        blob_names == BlobNames(list_blobs(objects, CurrentRelease))
    IN /\ r.pc = "rn_list"
       /\ objects' = objects
       /\ UNCHANGED <<bucketExists, cin, cout>>
       /\ \/ /\ blob_names # <<>>
             /\ Set(p, MoveLoop(MoveEnter(r, blob_names, MrDocsFolder(r.arg.release_tag),
                                          r.arg.mr_sha)))
          \/ /\ blob_names = <<>>
             /\ Set(p, Raised(r, "Exception", "Failed to move MR documentation"))

(***************************************************************************)
(* upload_mr_documentation                                                 *)
(***************************************************************************)
\* Lines 16-23.  MRDocumentationRequest declares no project_name, so line 17
\* raises AttributeError for a request of that class; a request object that
\* carries the attribute goes on to bucket.exists().
StartUpload(p, commit_sha, source_branch, has_project_name) ==
    /\ proc[p].pc = "idle"
    /\ UNCHANGED <<bucketExists, objects, cin, cout>>
    /\ LET r == [Idle EXCEPT !.op = "upload",
                             !.arg.commit_sha = commit_sha,
                             !.arg.source_branch = source_branch,
                             !.arg.has_project_name = has_project_name,
                             !.arg.documentation = BodyA,
                             !.start = objects]
       IN Set(p, IF has_project_name
                 THEN [r EXCEPT !.pc = "up_exists"]
                 ELSE Raised(r, "AttributeError", "project_name"))

\* process_merge_request_from_cicd when the merge request has no commit:
\* create_mr_documentation raises NoCommitsForMRError (MRDocumentationService.py
\* lines 155-157) and upload_mr_documentation is not called.
MrNoCommits(p, commit_sha) ==
    /\ proc[p].pc = "idle"
    /\ UNCHANGED <<bucketExists, objects, cin, cout>>
    /\ Set(p, Raised([Idle EXCEPT !.op = "mr", !.arg.commit_sha = commit_sha, !.start = objects],
                     "NoCommitsForMRError", "No commits found for MR"))

\* Line 21: bucket.exists().
UploadExists(p) ==
    LET r == proc[p]
    IN /\ r.pc = "up_exists"
       /\ UNCHANGED <<bucketExists, objects, cin, cout>>
       /\ Set(p, [r EXCEPT !.pc = IF bucketExists THEN "up_guard" ELSE "up_create"])

\* Line 23: storage_client.create_bucket(bucket).  A bucket created meanwhile
\* answers Conflict: UploadCreateConflict.
UploadCreateBucket(p) ==
    LET r == proc[p]
    IN /\ r.pc = "up_create"
       /\ UNCHANGED <<objects, cin, cout>>
       /\ ~bucketExists
       /\ bucketExists' = TRUE
       /\ Set(p, [r EXCEPT !.pc = "up_guard"])

\* Line 23 when another request has created the bucket since line 21: Conflict
\* becomes GCSBucketError (line 45).
UploadCreateConflict(p) ==
    LET r == proc[p]
    IN /\ r.pc = "up_create"
       /\ bucketExists
       /\ UNCHANGED <<bucketExists, objects, cin, cout>>
       /\ Set(p, Raised(r, "GCSBucketError", "already taken"))

\* Lines 26-27.  get_documents_sha is a coroutine function and is called
\* without await: mr_sha is a coroutine object, nothing is listed, and
\* `request.commit_sha in mr_sha` raises TypeError, which no handler of lines
\* 41-49 catches.  Lines 30-39 (the upload) are never reached.
UploadGuard(p) ==
    LET r == proc[p]
    IN /\ r.pc = "up_guard"
       /\ UNCHANGED <<bucketExists, objects, cin, cout>>
       /\ Set(p, Raised(r, "TypeError", "argument of type 'coroutine' is not iterable"))

(***************************************************************************)
(* A store call that fails.  What the code does with the error depends on  *)
(* the call.                                                               *)
(***************************************************************************)
StoreCalls == {"mv_rename", "mv_exists", "ag_find1", "ag_list1", "ag_find2", "ag_list2",
               "ag_download", "wf_llm", "rn_find", "rn_upload", "rn_list",
               "up_exists", "up_create"}

FaultAt(r) ==
    CASE r.pc = "mv_rename" -> MoveHardFailure(r)
           \* ReleaseNoteStorage.py lines 256-258
      [] r.pc = "mv_exists" -> MoveRaise(r)
           \* line 249, inside the handler of NotFound: nothing catches it
      [] r.pc \in {"ag_find1", "ag_find2"} -> Raised(r, "Exception", "Bucket does not exist")
           \* find_project_bucket answers False for any error (Utility.py lines 19-21)
      [] r.pc \in {"ag_list1", "ag_list2"} -> Raised(r, "GoogleAPICallError", "list_blobs")
      [] r.pc = "ag_download" -> Raised(r, "GoogleAPICallError", "download_as_text")
      [] r.pc = "wf_llm" -> Raised(r, "DocumentationGenerationError", "llm")
           \* DocumentationAnalysis.py lines 130-133
      [] r.pc = "rn_find" -> Raised(r, "Exception", "Bucket connection failed")
           \* ReleaseNoteStorage.py lines 104-110
      [] r.pc = "rn_upload" -> Raised(r, "Exception", "Release note upload failed")
           \* lines 128-129
      [] r.pc = "rn_list" -> Raised(r, "Exception", "Failed to move MR documentation")
           \* lines 152-154
      [] r.pc \in {"up_exists", "up_create"} -> Raised(r, "GCSBucketError", "Permission denied")
           \* MRDocumentationStorage.py lines 43-44

StoreFault(p) ==
    LET r == proc[p]
    IN /\ r.pc \in StoreCalls
       /\ MayFault(r)
       /\ UNCHANGED <<bucketExists, objects, cin, cout>>
       /\ Set(p, FaultAt(Faulted(r)))

(***************************************************************************)
(* The filename codec on its own                                           *)
(***************************************************************************)
NoCin == [timestamp |-> Null, commit_sha |-> Null, source_branch |-> Null]
NoCout == [pc |-> "off", name |-> Null, sha |-> Null, mr_sha |-> {}]

\* Lines 30-33 of upload_mr_documentation: the object name.
Encode ==
    /\ cout.pc = "encode"
    /\ cout' = [cout EXCEPT !.pc = "decode",
                            !.name = encode(cin.timestamp, cin.commit_sha, cin.source_branch)]
    /\ UNCHANGED <<bucketExists, objects, proc, cin>>

\* extract_sha_from_filename of that name.
Decode ==
    /\ cout.pc = "decode"
    /\ cout' = [cout EXCEPT !.pc = "done", !.sha = extract_sha_from_filename(cout.name)]
    /\ UNCHANGED <<bucketExists, objects, proc, cin>>

\* extract_sha_from_filename of any name.
DecodeAny(name) ==
    /\ cout.pc = "encode"
    /\ cout' = [cout EXCEPT !.pc = "decoded", !.name = name,
                            !.sha = extract_sha_from_filename(name)]
    /\ UNCHANGED <<bucketExists, objects, proc, cin>>

\* get_documents_sha of a bucket.
ListShas ==
    /\ cout.pc = "list"
    /\ cout' = [cout EXCEPT !.pc = "listed", !.mr_sha = get_documents_sha(objects)]
    /\ UNCHANGED <<bucketExists, objects, proc, cin>>

(***************************************************************************)
(* Commit enrichment (services/gitlab/MRDocumentationService.py)           *)
(***************************************************************************)
MaxCommits == 3

\* What GitLab answers for the diff of a commit: a list of file diffs, each
\* with its flags and its unified diff.
FileNew == [new_file |-> TRUE, deleted_file |-> FALSE,
            diff |-> <<"+", "a", "\n", "+", "b">>]
FileModified == [new_file |-> FALSE, deleted_file |-> FALSE,
                 diff |-> <<"-", "-", "-", " ", "f", "\n", "+", "+", "+", " ", "f", "\n",
                            "-", "x", "\n", "+", "y", "\n", " ", "z">>]
FileDeleted == [new_file |-> FALSE, deleted_file |-> TRUE, diff |-> <<"-", "q">>]

\* The commits of a merge request, each with the answer of GitLab to the
\* request for its diff (ok FALSE: the request fails).
Commits ==
    { [id |-> ShaA, ok |-> TRUE, diff |-> <<FileNew>>],
      [id |-> ShaB, ok |-> TRUE, diff |-> <<FileModified, FileDeleted>>],
      [id |-> ShaC, ok |-> TRUE, diff |-> <<>>],
      [id |-> ShaC, ok |-> FALSE, diff |-> <<>>] }

CommitLists == UNION {[1..n -> Commits] : n \in 0..MaxCommits}

\* A line counts for a sign ("+" added, "-" removed) when it starts with the
\* sign and not with three of them; no line starts with both signs, so the
\* elif of the code excludes nothing.
CountedLine(line, sign) ==
    StartsWith(line, <<sign>>) /\ ~StartsWith(line, <<sign, sign, sign>>)

CountLines(diff_data, sign) ==
    LET RECURSIVE go(_)
        go(i) ==
            IF i > Len(diff_data) THEN 0
            ELSE LET lines == Split(diff_data[i].diff, "\n")
                 IN Cardinality({k \in 1..Len(lines) : CountedLine(lines[k], sign)}) + go(i + 1)
    IN go(1)

calculate_diff_statistics(diff_data) ==
    LET files == 1..Len(diff_data)
        lines_added == CountLines(diff_data, "+")
        lines_removed == CountLines(diff_data, "-")
    IN [files_changed |-> Len(diff_data),
        lines_added |-> lines_added,
        lines_removed |-> lines_removed,
        files_added |-> Cardinality({i \in files : diff_data[i].new_file}),
        files_deleted |-> Cardinality({i \in files : ~diff_data[i].new_file
                                                      /\ diff_data[i].deleted_file}),
        files_modified |-> Cardinality({i \in files : ~diff_data[i].new_file
                                                       /\ ~diff_data[i].deleted_file}),
        total_changes |-> lines_added + lines_removed]

NoStats == calculate_diff_statistics(<<>>)

\* The first dictionary the loop appends for a commit: with its diff.
WithDiff(commit) ==
    [id |-> commit.id, diff_data |-> commit.diff, has_diff |-> TRUE,
     has_stats |-> TRUE, diff_stats |-> calculate_diff_statistics(commit.diff)]

\* The second dictionary the loop appends for the same commit: no diff, and
\* no diff_stats key.
WithoutDiff(commit) ==
    [id |-> commit.id, diff_data |-> <<>>, has_diff |-> FALSE,
     has_stats |-> FALSE, diff_stats |-> NoStats]

\* The list the loop builds over commits i.. (all diffs fetched).
enrich_commits_with_diffs(commits) ==
    LET RECURSIVE go(_)
        go(i) ==
            IF i > Len(commits) THEN <<>>
            ELSE <<WithDiff(commits[i]), WithoutDiff(commits[i])>> \o go(i + 1)
    IN go(1)

NoEnriched == [pc |-> "enrich", why |-> "", enriched |-> <<>>, mr_count |-> 0]

\* create_mr_documentation down to its summary: no commits raises; a diff
\* that cannot be fetched raises out of the loop; otherwise the summary
\* counts the enriched list.
CreateMrDocumentation ==
    /\ cout.pc = "enrich"
    /\ cout' = IF cin.commits = <<>>
               THEN [cout EXCEPT !.pc = "raised", !.why = "NoCommitsForMRError"]
               ELSE IF \E i \in 1..Len(cin.commits) : ~cin.commits[i].ok
               THEN [cout EXCEPT !.pc = "raised", !.why = "GitlabAPIError"]
               ELSE LET commits_with_diffs == enrich_commits_with_diffs(cin.commits)
                    IN [cout EXCEPT !.pc = "enriched",
                                    !.enriched = commits_with_diffs,
                                    !.mr_count = Len(commits_with_diffs)]
    /\ UNCHANGED <<bucketExists, objects, proc, cin>>

(***************************************************************************)
(* Specifications                                                          *)
(***************************************************************************)
\* Where a document lies as the requests arrive: not there, under
\* current_release/, or already relocated by the release of v1.
Relocated(name) == MrDocsFolder(TagV1) \o Basename(name)

Placements == [InitialNames -> {"absent", "current", "released"}]

BucketOf(place) ==
    LET names == {n \in InitialNames : place[n] = "current"} \cup
                 {Relocated(n) : n \in {m \in InitialNames : place[m] = "released"}}
    IN [n \in names |-> IF n \in InitialNames THEN BodyOf(n)
                        ELSE BodyOf(CHOOSE m \in InitialNames : Relocated(m) = n)]

InitBucket ==
    /\ bucketExists \in BOOLEAN
    /\ objects \in IF bucketExists THEN {BucketOf(place) : place \in Placements} ELSE {<<>>}

InitSeq ==
    /\ InitBucket
    /\ proc = [p \in Procs |-> Idle]
    /\ cin = NoCin
    /\ cout = NoCout

\* The buckets two concurrent requests are run against.
ConcPlacements ==
    {[n \in InitialNames |-> "absent"],
     [n \in InitialNames |-> "current"],
     [n \in InitialNames |-> IF n = NameA1 THEN "current" ELSE "absent"],
     [n \in InitialNames |-> IF n = NameA2 THEN "released" ELSE "current"]}

Init ==
    /\ bucketExists \in BOOLEAN
    /\ objects \in IF bucketExists THEN {BucketOf(place) : place \in ConcPlacements} ELSE {<<>>}
    /\ proc = [p \in Procs |-> Idle]
    /\ cin = NoCin
    /\ cout = NoCout

\* Candidate lists of a direct call of move_mr_documentation: a listing of
\* current_release/ made at some time.
Candidates == {SortNames(S) : S \in SUBSET InitialNames}

Folders == {MrDocsFolder(TagV1), Releases \o TagV2 \o <<"/", "m", "r", "_", "d", "o", "c", "s">>}

\* A direct call may also name no folder: the bucket's root.
FoldersSeq == Folders \cup {<<>>}

Bundles == {{}, {ShaA}, {ShaA, ShaB}, {ShaB, ShaC}}

\* One request.
NextSeq ==
    \E p \in {"p1"} :
        \/ \E b \in Candidates, f \in FoldersSeq, m \in Bundles, t \in BOOLEAN : StartMove(p, b, f, m, t)
        \/ MoveRename(p)
        \/ MoveExists(p)
        \/ \E m \in Bundles, g \in Tags : StartRelease(p, m, g)
        \/ AggFindBucket1(p)
        \/ AggListShas(p)
        \/ AggFindBucket2(p)
        \/ AggListBlobs(p)
        \/ AggDownload(p)
        \/ Llm(p)
        \/ ReleaseFindBucket(p)
        \/ \E t \in Timestamps : ReleaseUpload(p, t)
        \/ ReleaseList(p)
        \/ \E c \in {ShaA, ShaC}, b \in {BrFeatureX, BrSlash}, h \in BOOLEAN : StartUpload(p, c, b, h)
        \/ \E c \in {ShaA, ShaC} : MrNoCommits(p, c)
        \/ UploadExists(p)
        \/ UploadCreateBucket(p)
        \/ UploadGuard(p)
        \/ StoreFault(p)

SpecSeq == InitSeq /\ [][NextSeq]_vars

\* Two requests at once.
Next ==
    \E p \in Procs :
        \/ \E f \in Folders, m \in {{ShaA}, {ShaA, ShaB}} :
              StartMove(p, SortNames(InitialNames), f, m, FALSE)
        \/ MoveRename(p)
        \/ MoveExists(p)
        \/ \E m \in {{}, {ShaA}, {ShaA, ShaB}}, g \in Tags : StartRelease(p, m, g)
        \/ AggFindBucket1(p)
        \/ AggListShas(p)
        \/ AggFindBucket2(p)
        \/ AggListBlobs(p)
        \/ AggDownload(p)
        \/ AggDownloadGone(p)
        \/ Llm(p)
        \/ ReleaseFindBucket(p)
        \/ ReleaseUpload(p, TS2)
        \/ ReleaseList(p)
        \/ \E h \in BOOLEAN : StartUpload(p, ShaA, BrFeatureX, h)
        \/ MrNoCommits(p, ShaA)
        \/ UploadExists(p)
        \/ UploadCreateBucket(p)
        \/ UploadCreateConflict(p)
        \/ UploadGuard(p)

Spec == Init /\ [][Next]_vars

InitCodec ==
    /\ bucketExists = FALSE
    /\ objects = <<>>
    /\ proc = [p \in Procs |-> Idle]
    /\ cin \in [timestamp : Timestamps, commit_sha : Shas, source_branch : Branches]
    /\ cout = [NoCout EXCEPT !.pc = "encode"]

NextCodec ==
    \/ Encode
    \/ Decode
    \/ \E name \in Names : DecodeAny(name)

SpecCodec == InitCodec /\ [][NextCodec]_vars

\* Objects a bucket may hold when get_documents_sha lists it: two documents of
\* commit A and one of B under current_release/, a document of C relocated
\* by a release, a document of C in a folder whose name only begins like
\* current_release, the folder's placeholder object, a file that is no
\* document, and a document of C whose branch name has a '/'.
ListNames ==
    {NameA1, NameA2, NameB1,
     Relocated(encode(TS1, ShaC, BrMain)),
     <<"c", "u", "r", "r", "e", "n", "t", "_", "r", "e", "l", "e", "a", "s", "e", "_", "o", "l", "d", "/">>
         \o TS1 \o <<"_">> \o ShaC \o <<"_">> \o BrMain \o DotMd,
     CurrentRelease,
     CurrentRelease \o ReadmeMd,
     encode(TS1, ShaC, BrSlash)}

InitList ==
    /\ bucketExists = TRUE
    /\ objects \in {[n \in S |-> BodyA] : S \in SUBSET ListNames}
    /\ proc = [p \in Procs |-> Idle]
    /\ cin = NoCin
    /\ cout = [NoCout EXCEPT !.pc = "list"]

NextList == ListShas

SpecList == InitList /\ [][NextList]_vars

\* Documents named as upload_mr_documentation names them for branch names
\* with a '/' (feat/x, fix/x) and for a branch name that holds the identity of
\* another commit, beside an everyday one.
BrFixX == <<"f", "i", "x", "/", "x">>
SlashA == encode(TS1, ShaA, BrSlash)
SlashB == encode(TS1, ShaB, BrFixX)
HexBranchC == encode(TS2, ShaC, <<"x", "_">> \o ShaB \o <<"_", "y">>)
BranchNames == {SlashA, SlashB, HexBranchC, NameB1}

BranchBodyOf(name) ==
    IF name = SlashA THEN BodyA
    ELSE IF name = SlashB THEN BodyB
    ELSE IF name = HexBranchC THEN BodyC
    ELSE Note

InitNames ==
    /\ bucketExists = TRUE
    /\ objects \in {[n \in S |-> BranchBodyOf(n)] : S \in SUBSET BranchNames}
    /\ proc = [p \in Procs |-> Idle]
    /\ cin = NoCin
    /\ cout = NoCout

\* One direct call of move_mr_documentation on such a bucket.
NextNames ==
    \/ \E S \in SUBSET BranchNames, m \in {{ShaA}, {ShaB}, {ShaA, ShaB}} :
          StartMove("p1", SortNames(S), MrDocsFolder(TagV1), m, FALSE)
    \/ MoveRename("p1")
    \/ MoveExists("p1")

SpecNames == InitNames /\ [][NextNames]_vars

\* create_mr_documentation on every list of at most MaxCommits commits.
InitEnrich ==
    /\ bucketExists = TRUE
    /\ objects = <<>>
    /\ proc = [p \in Procs |-> Idle]
    /\ cin \in {[commits |-> cs] : cs \in CommitLists}
    /\ cout = NoEnriched

NextEnrich == CreateMrDocumentation

SpecEnrich == InitEnrich /\ [][NextEnrich]_vars

(***************************************************************************)
(* Properties                                                              *)
(***************************************************************************)
\* The objects under current_release/ whose decoded identity is in the set.
UnderCurrentRelease(objs, shas) ==
    {n \in DOMAIN objs : StartsWith(n, CurrentRelease) /\ extract_sha_from_filename(n) \in shas}

\* The candidates of a call that its filter lets through.
SelectedNames(r) ==
    {r.loc.blob_names[j] : j \in {h \in 1..Len(r.loc.blob_names) :
                                     Selected(r.loc.blob_names[h], r.loc.shas_to_move)}}

FolderPlus(r, name) == r.loc.destination_folder \o Basename(name)

SumOver(S, f) ==
    LET RECURSIVE go(_)
        go(rest) == IF rest = {} THEN 0
                    ELSE LET x == CHOOSE y \in rest : TRUE IN f[x] + go(rest \ {x})
    IN go(S)

\* C1: an upload request for a commit that already has a document under
\* current_release fails with DuplicateDocumentationError and leaves the bucket
\* as it was.
C1_DuplicateRejected ==
    \A p \in Procs :
        LET r == proc[p]
        IN (r.op = "upload" /\ r.pc = "done" /\ r.nfaults = 0
              /\ r.arg.commit_sha \in get_documents_sha(r.start))
           => /\ r.out.status = "raised"
              /\ r.out.error = "DuplicateDocumentationError"
              /\ objects = r.start

\* C2: when get_MR_documentation returns a corpus, its documents are exactly
\* the objects under current_release whose decoded identity is in the bundle
\* and among the listed identities, one block each; total_documents is their
\* number and estimated_tokens the sum of floor(len(content) / 4).
C2_AggregationComplete ==
    \A p \in Procs :
        LET r == proc[p]
            docs == r.loc.documents
            corpus == r.loc.documentation
            M == UnderCurrentRelease(r.start, r.arg.mr_in_release \cap get_documents_sha(r.start))
        IN (r.op = "release" /\ r.pc = "wf_llm")
           => /\ M # {}
              /\ Len(docs) = Cardinality(M)
              /\ {<<docs[j].filename, docs[j].sha, docs[j].content>> : j \in 1..Len(docs)}
                   = {<<Basename(n), extract_sha_from_filename(n), r.start[n]>> : n \in M}
              /\ corpus.total_documents = Cardinality(M)
              /\ corpus.estimated_tokens = SumOver(M, [n \in M |-> Len(r.start[n]) \div 4])
              /\ Len(corpus.formatted_text) = Cardinality(M) + 1
              /\ \A j \in 1..Len(docs) :
                    /\ corpus.formatted_text[j + 1].filename = docs[j].filename
                    /\ corpus.formatted_text[j + 1].sha = docs[j].sha
                    /\ corpus.formatted_text[j + 1].content = docs[j].content

\* C2 witness: documents of A (twice) and B are stored, the bundle is {B, C}:
\* the corpus holds the one document of B.
C2_Witness ==
    \E p \in Procs :
        /\ proc[p].op = "release" /\ proc[p].pc = "wf_llm"
        /\ proc[p].arg.mr_in_release = {ShaB, ShaC}
        /\ InitialNames \subseteq DOMAIN proc[p].start
        /\ proc[p].loc.documentation.total_documents = 1
        /\ proc[p].loc.documentation.estimated_tokens = 1

\* C3: a second call of move_mr_documentation with the same arguments, after a
\* first call that recorded every selected candidate as moved, returns the same
\* map as the first, every item through the already-moved check, records no
\* failure and leaves the bucket as it was (the store answering every call).
C3_RelocationIdempotent ==
    \A p \in Procs :
        LET r == proc[p]
        IN (r.op = "move" /\ r.loc.call = 2 /\ r.loc.first.failed_moves = <<>> /\ r.nfaults = 0)
           => /\ objects = r.start
              /\ r.pc = "done"
                 => /\ r.out.status = "returned"
                    /\ r.out.value = r.loc.first.moved_blobs
                    /\ DOMAIN r.out.value = SelectedNames(r)
                    /\ r.loc.failed_moves = <<>>
                    /\ \A n \in SelectedNames(r) : r.loc.printed[n] = "Skipping"

\* C3 witness: the first call renamed two objects, the second call is done.
C3_Witness ==
    \E p \in Procs :
        /\ proc[p].op = "move" /\ proc[p].loc.call = 2 /\ proc[p].pc = "done"
        /\ proc[p].nfaults = 0
        /\ proc[p].loc.first.failed_moves = <<>>
        /\ Cardinality({n \in DOMAIN proc[p].loc.first.printed :
                           proc[p].loc.first.printed[n] = "Successfully moved"}) >= 2

SameMove(r, q) ==
    /\ r.op = "move" /\ q.op = "move"
    /\ r.arg.blob_names = q.arg.blob_names
    /\ r.arg.destination_folder = q.arg.destination_folder
    /\ r.arg.mr_sha = q.arg.mr_sha

\* C4: two calls of move_mr_documentation with the same arguments, run
\* concurrently: once both are done, every selected object that lay under
\* current_release when either began is at destination folder + basename with
\* its content and no longer at its source, both calls have it in their map
\* with that destination, neither has recorded a failure for it, and exactly
\* one of them renamed it.
C4_ConcurrentMovers ==
    LET r == proc["p1"]
        q == proc["p2"]
    IN (SameMove(r, q) /\ r.pc = "done" /\ q.pc = "done")
       => \A n \in SelectedNames(r) :
             (n \in DOMAIN r.start \/ n \in DOMAIN q.start)
             => /\ FolderPlus(r, n) \in DOMAIN objects
                /\ n \notin DOMAIN objects
                /\ \A m \in DOMAIN r.start : m = n => objects[FolderPlus(r, n)] = r.start[m]
                /\ \A m \in DOMAIN q.start : m = n => objects[FolderPlus(r, n)] = q.start[m]
                /\ r.out.status = "returned" /\ q.out.status = "returned"
                /\ n \in DOMAIN r.out.value /\ r.out.value[n] = FolderPlus(r, n)
                /\ n \in DOMAIN q.out.value /\ q.out.value[n] = FolderPlus(r, n)
                /\ n \notin DOMAIN r.loc.failed_moves
                /\ n \notin DOMAIN q.loc.failed_moves
                /\ {r.loc.printed[n], q.loc.printed[n]} = {"Successfully moved", "Skipping"}

\* C4 witness: both calls are done and each of them won the rename of one
\* object and lost the rename of another.
C4_Witness ==
    LET r == proc["p1"]
        q == proc["p2"]
    IN /\ SameMove(r, q) /\ r.pc = "done" /\ q.pc = "done"
       /\ \E n, m \in SelectedNames(r) :
             /\ n \in DOMAIN r.start /\ m \in DOMAIN r.start
             /\ r.loc.printed[n] = "Successfully moved" /\ q.loc.printed[n] = "Skipping"
             /\ q.loc.printed[m] = "Successfully moved" /\ r.loc.printed[m] = "Skipping"

\* C5: once the release note is uploaded, the relocation step cannot fail the
\* workflow: upload_release_note returns the release note's URI and the note
\* is in the store.
C5_RelocationNonCritical ==
    \A p \in Procs :
        LET r == proc[p]
        IN (r.op = "release" /\ r.pc = "done" /\ r.loc.note_uploaded)
           => /\ r.out.status = "returned"
              /\ r.out.value = Uri(r.loc.file_path)
              /\ r.loc.file_path \in DOMAIN objects

\* The renames of a call that the store failed.
HardFailed(r) ==
    {r.loc.blob_names[j] : j \in {h \in 1..Len(r.loc.blob_names) : <<"mv_rename", h>> \in r.faults}}

C7_PartialTolerance ==
    \A p \in Procs :
        LET r == proc[p]
        IN (r.op = "move" /\ r.pc = "done" /\ r.nfaults = 0)
           => /\ r.out.status = "returned"
              /\ r.out.value = r.loc.moved_blobs
              /\ \A n \in SelectedNames(r) :
                    IF n \notin DOMAIN r.start /\ FolderPlus(r, n) \notin DOMAIN r.start
                    THEN /\ n \notin DOMAIN r.out.value
                         /\ n \in DOMAIN r.loc.failed_moves
                         /\ r.loc.failed_moves[n] = "Source blob not found."
                    ELSE /\ n \in DOMAIN r.out.value
                         /\ r.out.value[n] = FolderPlus(r, n)
                         /\ FolderPlus(r, n) \in DOMAIN objects
                         /\ n \notin DOMAIN objects
                         /\ n \notin DOMAIN r.loc.failed_moves

\* C7 witness: of three selected candidates one was missing with no
\* destination, and the two others were renamed.
C7_Witness ==
    \E p \in Procs :
        LET r == proc[p]
        IN /\ r.op = "move" /\ r.pc = "done" /\ r.nfaults = 0 /\ r.loc.call = 1
           /\ Cardinality(DOMAIN r.loc.failed_moves) = 1
           /\ Cardinality({n \in DOMAIN r.loc.printed : r.loc.printed[n] = "Successfully moved"}) = 2

\* C8: from an empty bucket, once the upload for commit c is done, the
\* identities listed under current_release are {c}; and once a release has
\* returned, no object under current_release has an identity of its bundle.
C8_Lifecycle ==
    \A p \in Procs :
        LET r == proc[p]
        IN /\ (r.op = "upload" /\ r.pc = "done" /\ r.nfaults = 0 /\ r.start = <<>>)
              => get_documents_sha(objects) = {r.arg.commit_sha}
           /\ (r.op = "release" /\ r.pc = "done" /\ r.nfaults = 0 /\ r.out.status = "returned")
              => UnderCurrentRelease(objects, r.arg.mr_in_release) = {}

\* C9: when two upload requests for one commit with no document under
\* current_release are both at the duplicate check, each of them passes it:
\* neither raises there (both go on to upload).
C9_BothPassTheGuard ==
    [][\A p, q \in Procs :
          (/\ p # q
           /\ proc[p].pc = "up_guard" /\ proc[q].pc = "up_guard"
           /\ proc[p].arg.commit_sha = proc[q].arg.commit_sha
           /\ proc[p].arg.commit_sha \notin get_documents_sha(objects)
           /\ proc'[p] # proc[p])
          => proc'[p].out.status # "raised"]_vars

\* C10: decode of the name upload builds returns the commit identity, for
\* every branch name without a run of 40 hex characters.
C10_RoundTrip ==
    (cout.pc = "done" /\ ~HasHexRun(cin.source_branch)) => cout.sha = cin.commit_sha

\* The decoding the codec is specified by: the path prefix up to the last '/'
\* and the trailing `.md` are taken off, the rest is cut at every '_'.
EndsWithMd(s) == Len(s) >= 3 /\ SubSeq(s, Len(s) - 2, Len(s)) = DotMd

StripMdSuffix(s) == IF EndsWithMd(s) THEN SubSeq(s, 1, Len(s) - 3) ELSE s

SegmentsOf(name) == Split(StripMdSuffix(Basename(name)), "_")

FirstShaSegment(name) ==
    LET parts == SegmentsOf(name)
        hits == {i \in 1..Len(parts) : IsSha(parts[i])}
    IN IF hits = {} THEN Null ELSE parts[Min(hits)]

\* C11: extract_sha_from_filename returns a value for every name (it does not
\* raise), and the value is None for the empty name and for every name none
\* of whose segments is 40 characters of [a-f0-9].
C11_DecodeRobust ==
    cout.pc = "decoded"
    => ((cout.name = <<>> \/ \A i \in 1..Len(SegmentsOf(cout.name)) : ~IsSha(SegmentsOf(cout.name)[i]))
        => cout.sha = Null)

\* C12 as claimed: extract_sha_from_filename of a name that does not end in
\* `.md` is None.
C12_NoSuffixIsNull ==
    (cout.pc = "decoded" /\ ~EndsWithMd(cout.name)) => cout.sha = Null

\* C12 as amended: for a name that does not end in `.md`,
\* extract_sha_from_filename returns what it returns for the name with `.md`
\* appended; when the last path component holds no `.md` at all, that is its
\* first segment of 40 characters of [a-f0-9], None only if it has none.
C12_NoSuffixDecodes ==
    (cout.pc = "decoded" /\ ~EndsWithMd(cout.name))
    => /\ cout.sha = extract_sha_from_filename(cout.name \o DotMd)
       /\ ~Contains(DotMd, Basename(cout.name)) => cout.sha = FirstShaSegment(cout.name)

\* C12 witness: timestamp_sha_branch without the suffix decodes to the sha.
C12_Witness ==
    /\ cout.pc = "decoded"
    /\ cout.name = TS1 \o <<"_">> \o ShaA \o <<"_">> \o BrFeatureX
    /\ cout.sha = ShaA

\* C13: extract_sha_from_filename returns the first segment of 40 characters
\* of [a-f0-9] of the name without its path prefix and without its trailing
\* `.md` only; a `.md` elsewhere stays and neither makes nor unmakes a match.
C13_DecodeAlgorithm ==
    cout.pc = "decoded" => cout.sha = FirstShaSegment(cout.name)

\* C14: when the bundle and the identities listed under current_release are
\* disjoint (no document there at all included), get_MR_documentation raises
\* NoMatchingDocumentationError, has downloaded nothing and built no corpus.
C14_EmptyAggregation ==
    \A p \in Procs :
        LET r == proc[p]
        IN (r.op = "release" /\ r.pc = "done" /\ r.nfaults = 0 /\ bucketExists
              /\ r.arg.mr_in_release # {}
              /\ r.arg.mr_in_release \cap get_documents_sha(r.start) = {})
           => /\ r.out.status = "raised"
              /\ r.out.error \in {"NoMatchingDocumentationError", "MRDocumentationNotFoundError"}
              /\ r.loc.documents = <<>>
              /\ r.loc.documentation = Null

\* C15: get_documents_sha returns exactly the identities decoded, not None,
\* from the names of the objects under current_release/: an identity is in
\* the result if and only if some object under current_release/ decodes to it.
C15_ListShas ==
    cout.pc = "listed"
    => /\ Null \notin cout.mr_sha
       /\ \A sha \in Shas \cup cout.mr_sha :
             sha \in cout.mr_sha
             <=> \E n \in DOMAIN objects :
                    StartsWith(n, CurrentRelease) /\ extract_sha_from_filename(n) = sha

\* C15 witness: two documents of commit A and a file that is no document lie
\* under current_release/, documents of C lie elsewhere: the result is {A}.
C15_Witness ==
    /\ cout.pc = "listed"
    /\ {NameA1, NameA2, CurrentRelease \o ReadmeMd, CurrentRelease,
        Relocated(encode(TS1, ShaC, BrMain))} \subseteq DOMAIN objects
    /\ cout.mr_sha = {ShaA}

\* C16: an upload request whose create_bucket finds the bucket created by
\* another request since its own bucket.exists() does not fail there: it goes
\* on to the duplicate check.
C16_ConflictIsSuccess ==
    [][\A p \in Procs :
          (proc[p].pc = "up_create" /\ bucketExists /\ proc'[p] # proc[p])
          => proc'[p].pc = "up_guard"]_vars

\* C17: a release request that finds no bucket fails with BucketNotFound; the
\* bucket is not created and no object is written.
C17_ReadOnlyLookup ==
    \A p \in Procs :
        LET r == proc[p]
        IN (r.op = "release" /\ r.pc = "done" /\ r.nfaults = 0
              /\ r.arg.mr_in_release # {} /\ ~bucketExists)
           => /\ r.out.status = "raised"
              /\ r.out.error = "BucketNotFound"
              /\ objects = <<>>
              /\ ~r.loc.note_uploaded

\* The outcome of a release request whose bucket is absent.
BucketAbsentOutcome == <<"Exception", "Bucket does not exist">>

\* C18: a request one of whose bucket lookups, listings or uploads the store
\* refused, the bucket being there, fails, and not with the outcome of an
\* absent bucket.
C18_PermissionDenied ==
    \A p \in Procs :
        LET r == proc[p]
        IN (r.pc = "done" /\ bucketExists
              /\ \E f \in r.faults : f[1] \in {"ag_find1", "ag_find2", "rn_find", "ag_list1",
                                                "ag_list2", "rn_list", "rn_upload", "up_exists"})
           => /\ r.out.status = "raised"
              /\ <<r.out.error, r.out.why>> # BucketAbsentOutcome

\* C19: a request to generate-mr-documentation that ends in
\* DuplicateDocumentationError is answered 409, one that ends in a not-found
\* error (no commits, bucket not found, documentation not found) 404, one
\* that ends in a storage error 500.
C19_HttpErrorClass ==
    \A p \in Procs :
        LET r == proc[p]
        IN (r.op \in {"mr", "upload"} /\ r.pc = "done" /\ r.out.status = "raised")
           => /\ r.out.error = "DuplicateDocumentationError" => r.out.http = 409
              /\ r.out.error \in {"NoCommitsForMRError", "BucketNotFound",
                                   "MRDocumentationNotFoundError"} => r.out.http = 404
              /\ r.out.error \in {"GCSBucketError", "GCSUploadError"} => r.out.http = 500

\* The part of a name after its last '/'.
AfterLastSlash(s) ==
    LET sl == {i \in 1..Len(s) : s[i] = "/"}
    IN IF sl = {} THEN s
       ELSE SubSeq(s, (CHOOSE i \in sl : \A j \in sl : j <= i) + 1, Len(s))

\* C20 as claimed: every folder, the empty one included, is made to end with
\* '/', and every entry src -> dst of the returned map has dst = that folder
\* + basename(src).
C20_TargetNameSlashAlways ==
    \A p \in Procs :
        LET r == proc[p]
            folder == IF EndsWithSlash(r.arg.destination_folder)
                      THEN r.arg.destination_folder
                      ELSE r.arg.destination_folder \o <<"/">>
        IN (r.op = "move" /\ r.pc = "done" /\ r.out.status = "returned")
           => \A src \in DOMAIN r.out.value : r.out.value[src] = folder \o AfterLastSlash(src)

\* C20 as amended: a folder that is not empty is made to end with '/', the
\* empty folder stays empty, and every entry src -> dst of the returned map
\* has dst = that folder + basename(src), where the object then lies.
C20_TargetName ==
    \A p \in Procs :
        LET r == proc[p]
            folder == IF r.arg.destination_folder = <<>> \/ EndsWithSlash(r.arg.destination_folder)
                      THEN r.arg.destination_folder
                      ELSE r.arg.destination_folder \o <<"/">>
        IN (r.op = "move" /\ r.pc = "done" /\ r.out.status = "returned")
           => \A src \in DOMAIN r.out.value :
                 /\ r.out.value[src] = folder \o AfterLastSlash(src)
                 /\ r.out.value[src] \in DOMAIN objects

\* C20 witness: a call with the empty folder has renamed a document to its
\* bare file name.
C20_Witness ==
    \E p \in Procs :
        LET r == proc[p]
        IN /\ r.op = "move" /\ r.pc = "done" /\ r.out.status = "returned"
           /\ r.arg.destination_folder = <<>>
           /\ NameA1 \in DOMAIN r.out.value
           /\ r.out.value[NameA1] = TS1 \o <<"_">> \o ShaA \o <<"_">> \o BrFeatureX \o DotMd
           /\ r.loc.printed[NameA1] = "Successfully moved"

\* The candidates of a call whose name holds none of shas_to_move.
UnselectedNames(r) ==
    {r.loc.blob_names[j] : j \in {h \in 1..Len(r.loc.blob_names) :
                                     \A sha \in r.loc.shas_to_move :
                                         ~Contains(sha, r.loc.blob_names[h])}}

\* C21: at every point of a call of move_mr_documentation, a candidate whose
\* name holds none of shas_to_move has not been touched: it is neither in the
\* map nor among the failures, no rename was tried for it, and it lies where
\* it lay with its content; with no sha to move the bucket is as it was and
\* the map returned is empty.
C21_FilterFrame ==
    \A p \in Procs :
        LET r == proc[p]
        IN r.op = "move"
           => /\ \A n \in UnselectedNames(r) :
                    /\ n \notin DOMAIN r.loc.moved_blobs
                    /\ n \notin DOMAIN r.loc.failed_moves
                    /\ n \notin DOMAIN r.loc.printed
                    /\ n \in DOMAIN r.start => (n \in DOMAIN objects /\ objects[n] = r.start[n])
                    /\ n \notin DOMAIN r.start => n \notin DOMAIN objects
              /\ r.arg.mr_sha = {}
                 => /\ objects = r.start
                    /\ r.pc = "done" /\ r.out.status = "returned" /\ r.out.value = <<>>

\* C21 witness: a call for commit B has renamed the document of B and left
\* the two documents of A, which were candidates too, where they were.
C21_Witness ==
    \E p \in Procs :
        LET r == proc[p]
        IN /\ r.op = "move" /\ r.pc = "done" /\ r.loc.call = 1
           /\ r.arg.mr_sha = {ShaB, ShaC}
           /\ r.arg.blob_names = SortNames(InitialNames)
           /\ InitialNames \subseteq DOMAIN r.start
           /\ DOMAIN r.out.value = {NameB1}
           /\ {NameA1, NameA2} \subseteq DOMAIN objects

\* C22: within one request the steps follow one another.  A release request
\* renames a document only once its release note is written and stored; if the
\* writing of the note failed, it has moved nothing and the bucket is as it
\* was.  An upload request writes only after its duplicate check has found no
\* document of the commit.
C22_StepOrder ==
    \A p \in Procs :
        LET r == proc[p]
        IN /\ r.op = "release"
              => /\ (\/ r.pc \in {"mv_rename", "mv_exists"}
                     \/ r.loc.moved_blobs # <<>>
                     \/ \E n \in DOMAIN r.start : n \notin DOMAIN objects)
                    => /\ r.loc.note_uploaded
                       /\ r.loc.file_path \in DOMAIN objects
                       /\ objects[r.loc.file_path] = Note
                 /\ (\E f \in r.faults : f[1] = "rn_upload")
                    => /\ r.pc = "done" /\ r.out.status = "raised"
                       /\ objects = r.start
                       /\ r.loc.moved_blobs = <<>>
           /\ r.op = "upload"
              => (objects # r.start
                  => /\ r.arg.commit_sha \notin get_documents_sha(r.start)
                     /\ r.pc = "done" /\ r.out.status = "returned")

\* C22 witness: a release request has written its note and then renamed the
\* two documents of commit A.
C22_Witness ==
    \E p \in Procs :
        LET r == proc[p]
        IN /\ r.op = "release" /\ r.pc = "done" /\ r.out.status = "returned"
           /\ r.loc.file_path \in DOMAIN objects
           /\ DOMAIN r.loc.moved_blobs = {NameA1, NameA2}
           /\ \A n \in {NameA1, NameA2} : r.loc.printed[n] = "Successfully moved"

\* C23: the name upload_mr_documentation builds for a request decodes to the
\* request's commit identity, whatever the branch name (underscores, a run of
\* 40 hex characters), so the document is among the identities
\* get_documents_sha lists for a bucket that holds it.
C23_ObjectName ==
    cout.pc = "done"
    => /\ extract_sha_from_filename(cout.name) = cin.commit_sha
       /\ cin.commit_sha \in get_documents_sha([n \in {cout.name} |-> BodyA])

\* C24: an upload request for a commit whose only document was relocated by a
\* release (none is under current_release) is not refused as a duplicate: it
\* returns and has created an object of the commit under current_release.
C24_GuardScope ==
    \A p \in Procs :
        LET r == proc[p]
        IN (r.op = "upload" /\ r.pc = "done" /\ r.nfaults = 0
              /\ r.arg.commit_sha \notin get_documents_sha(r.start)
              /\ \E n \in DOMAIN r.start :
                    /\ StartsWith(n, Releases)
                    /\ extract_sha_from_filename(n) = r.arg.commit_sha)
           => /\ r.out.status = "returned"
              /\ \E n \in DOMAIN objects \ DOMAIN r.start :
                    /\ StartsWith(n, CurrentRelease)
                    /\ Contains(r.arg.commit_sha, n)

\* The file name of a document under current_release/: its name without the
\* folder.
OriginalFilename(name) == SubSeq(name, Len(CurrentRelease) + 1, Len(name))

\* C25: once a call of move_mr_documentation is done, the content of every
\* document the bucket held is still stored, under its name in
\* current_release or under a releases/<tag>/mr_docs/ folder with its
\* original file name, and no two sources of the map have one destination.
C25_NoDocumentLost ==
    \A p \in Procs :
        LET r == proc[p]
        IN (r.op = "move" /\ r.pc = "done")
           => /\ \A n \in DOMAIN r.start :
                    \/ n \in DOMAIN objects /\ objects[n] = r.start[n]
                    \/ \E g \in Tags :
                          /\ MrDocsFolder(g) \o OriginalFilename(n) \in DOMAIN objects
                          /\ objects[MrDocsFolder(g) \o OriginalFilename(n)] = r.start[n]
              /\ \A a, b \in DOMAIN r.out.value :
                    a # b => r.out.value[a] # r.out.value[b]

\* The candidates a finished call has dealt with: renamed, found moved, or
\* recorded as failed.
DealtWith(r) == DOMAIN r.loc.moved_blobs \cup DOMAIN r.loc.failed_moves

\* C26: for a candidate current_release/{timestamp}_{sha}_{branch}.md whose
\* branch name has no run of 40 hex characters, move_mr_documentation deals
\* with it exactly if its decoded identity is in shas_to_move; a document
\* whose branch name holds the identity of another commit that is in
\* shas_to_move is moved although its own identity is not.
C26_SubstringFilter ==
    \A p \in Procs :
        LET r == proc[p]
        IN (r.op = "move" /\ r.pc = "done")
           => /\ \A j \in 1..Len(r.arg.blob_names) :
                    LET n == r.arg.blob_names[j]
                    IN n \in {SlashA, SlashB, NameB1}
                       => (n \in DealtWith(r) <=> extract_sha_from_filename(n) \in r.arg.mr_sha)
              /\ \A j \in 1..Len(r.arg.blob_names) :
                    (/\ r.arg.blob_names[j] = HexBranchC
                     /\ HexBranchC \in DOMAIN r.start
                     /\ ShaB \in r.arg.mr_sha /\ ShaC \notin r.arg.mr_sha)
                    => HexBranchC \in DOMAIN r.out.value

\* C27: a release request gets to the release note and to the relocation
\* only with a bundle that is not empty and a corpus of at least one
\* document; a request whose bundle is empty, whose bundle meets no listed
\* identity, or whose corpus has no document has failed and has written and
\* renamed nothing.
C27_NoNoteWithoutDocs ==
    \A p \in Procs :
        LET r == proc[p]
        IN r.op = "release"
           => /\ (\/ r.loc.note_uploaded
                  \/ r.loc.moved_blobs # <<>>
                  \/ r.pc \in {"rn_find", "rn_upload", "rn_list", "mv_rename", "mv_exists"})
                 => /\ r.arg.mr_in_release # {}
                    /\ Len(r.loc.documents) >= 1
                    /\ r.loc.documentation.total_documents >= 1
              /\ (/\ r.pc = "done"
                  /\ \/ r.arg.mr_in_release = {}
                     \/ r.arg.mr_in_release \cap r.loc.mr_in_gcs = {}
                     \/ r.loc.documents = <<>>)
                 => /\ r.out.status = "raised"
                    /\ ~r.loc.note_uploaded
                    /\ r.loc.file_path = Null
                    /\ r.loc.moved_blobs = <<>>

\* C27 witness: the bundle met the listed identities, but by the second
\* listing another request had moved the documents: the corpus has no
\* document and the request has failed.
C27_Witness ==
    \E p \in Procs :
        LET r == proc[p]
        IN /\ r.op = "release" /\ r.pc = "done"
           /\ r.loc.common_sha # {}
           /\ r.loc.documents = <<>>
           /\ r.out.status = "raised" /\ r.out.why = "No documentation found for release"
           /\ ~r.loc.note_uploaded

\* C28: a release request that finds nothing under current_release when it
\* lists it for the relocation (another request has moved every document)
\* completes: it returns the URI of its release note.
C28_NothingLeftToMove ==
    [][\A p \in Procs :
          (/\ proc[p].pc = "rn_list"
           /\ BlobNames(list_blobs(objects, CurrentRelease)) = <<>>
           /\ proc'[p] # proc[p])
          => /\ proc'[p].out.status = "returned"
             /\ proc'[p].out.value = Uri(proc[p].loc.file_path)]_vars

\* C29: when get_MR_documentation returns a corpus, the corpus holds a
\* document of every identity of the overlap it computed, whatever other
\* requests did meanwhile.
C29_CorpusCoversOverlap ==
    \A p \in Procs :
        LET r == proc[p]
        IN (r.op = "release" /\ r.pc = "wf_llm")
           => \A sha \in r.loc.common_sha :
                 \E j \in 1..Len(r.loc.documents) : r.loc.documents[j].sha = sha

\* C30: when every diff of the merge request's commits is fetched, the
\* enriched list has exactly one entry per commit, in the order of the
\* commits, each with has_diff true, the commit's diff and its statistics,
\* and the summary's mr_count is the number of commits.
C30_OneEntryPerCommit ==
    cout.pc = "enriched"
    => /\ Len(cout.enriched) = Len(cin.commits)
       /\ cout.mr_count = Len(cin.commits)
       /\ \A i \in 1..Len(cout.enriched) :
             /\ i <= Len(cin.commits)
             /\ cout.enriched[i].id = cin.commits[i].id
             /\ cout.enriched[i].has_diff
             /\ cout.enriched[i].diff_data = cin.commits[i].diff
             /\ cout.enriched[i].has_stats
             /\ cout.enriched[i].diff_stats = calculate_diff_statistics(cin.commits[i].diff)

====
